---- MODULE Spec2Model ----
(***************************************************************************)
(* Election voting and tally integrity core of the online voting system:   *)
(* the Express handlers of routes/elections.js and routes/admin.js over    *)
(* the Election, Candidate and Vote collections.  Every await of a handler *)
(* is one step; steps of different requests interleave freely.             *)
(***************************************************************************)
EXTENDS Integers, Sequences, FiniteSets, TLC

(* ---------------------------------------------------------------- bounds *)
\* number of HTTP requests in a run, of any route, running concurrently
NumRequests == 2
\* last instant of the wall clock
MaxTime == 3
\* number of actions dispatched to the auth reducer in a run
MaxDispatches == 3

Requests == 1..NumRequests

(* ------------------------------------------------------ identifier pools *)
Voters == {"v1", "v2"}
\* "e2" is the id of an election that the initial store may lack
ElectionIds == {"e1", "e2"}
CandidateIds == {"c1", "c2"}
\* the candidates in the order of their creation
CreationOrder == <<"c1", "c2">>

(* --------------------------------------------------------------- storage *)
VARIABLES
    elections,   \* Election collection: id -> document
    candidates,  \* Candidate collection: id -> document
    votes,       \* Vote collection: set of documents
    clock,       \* wall clock (Date.now)
    req,         \* the requests: route, locals and position of each
    client       \* the browser: auth state, stored auth data, dispatched actions

vars == <<elections, candidates, votes, clock, req, client>>

(* ------------------------------------------- context/AuthContext.tsx *)
\* const initialState: AuthState
initialState == [user |-> "null", isAuthenticated |-> FALSE, isLoading |-> TRUE]

\* the actions of AuthAction; the payload of AUTH_SUCCESS is a User
AuthActions ==
    {[type |-> t] : t \in {"AUTH_START", "AUTH_FAIL", "LOGOUT"}}
        \cup {[type |-> "AUTH_SUCCESS", payload |-> u] : u \in Voters}

\* faulty variant: AUTH_FAIL keeps the user of the state
authReducer_FailKeepsUser(state, action) ==
    CASE action.type = "AUTH_START" -> [state EXCEPT !.isLoading = TRUE]
      [] action.type = "AUTH_SUCCESS" ->
            [state EXCEPT !.user = action.payload,
                          !.isAuthenticated = TRUE, !.isLoading = FALSE]
      [] action.type = "AUTH_FAIL" ->
            [state EXCEPT !.isAuthenticated = FALSE, !.isLoading = FALSE]
      [] action.type = "LOGOUT" ->
            [state EXCEPT !.user = "null",
                          !.isAuthenticated = FALSE, !.isLoading = FALSE]
      [] OTHER -> state

\* const authReducer = (state, action) => ...
authReducer(state, action) ==
    CASE action.type = "AUTH_START" -> [state EXCEPT !.isLoading = TRUE]
      [] action.type = "AUTH_SUCCESS" ->
            [state EXCEPT !.user = action.payload,
                          !.isAuthenticated = TRUE, !.isLoading = FALSE]
      [] action.type = "AUTH_FAIL" ->
            [state EXCEPT !.user = "null",
                          !.isAuthenticated = FALSE, !.isLoading = FALSE]
      [] action.type = "LOGOUT" ->
            [state EXCEPT !.user = "null",
                          !.isAuthenticated = FALSE, !.isLoading = FALSE]
      [] OTHER -> state

\* the AuthProvider after its first render: the state of useReducer, what
\* authService holds in the browser's storage, and the actions dispatched
InitialClient == [state |-> initialState, stored |-> "null", log |-> <<>>]

\* dispatch(action), as long as the log has room
Dispatch(action) ==
    /\ Len(client.log) < MaxDispatches
    /\ client' = [client EXCEPT !.state = authReducer(@, action),
                                !.log = Append(@, action)]
    /\ UNCHANGED <<elections, candidates, votes, clock, req>>


NoElection == [exists |-> FALSE, isActive |-> FALSE, startDate |-> 0, endDate |-> 0]
NoCandidate == [exists |-> FALSE, name |-> "", election |-> "e2", voteCount |-> 0]

\* an election document as created by POST /api/admin/elections
NewElection(start, end) ==
    [exists |-> TRUE, isActive |-> TRUE, startDate |-> start, endDate |-> end]

\* a candidate document as created by POST /api/admin/elections/:id/candidates
NewCandidate(n, e) == [exists |-> TRUE, name |-> n, election |-> e, voteCount |-> 0]

\* the candidate names an administrator uses
Names == {"A", "B"}

\* the names the candidates of the initial store were created with
NameOf(c) == IF c = "c1" THEN "A" ELSE "B"

(* ------------------------------------------------------------ Vote model *)
\* Vote.findOne({voter, election})
FindVote(v, e) == {x \in votes : x.voter = v /\ x.election = e}

\* faulty variant: the count taken without the election filter
CountAllVotes(e) == Cardinality(votes)

\* Vote.countDocuments({election})
CountVotesOfElection(e) == Cardinality({x \in votes : x.election = e})

\* Vote.countDocuments({candidate})
CountVotesOfCandidate(c) == Cardinality({x \in votes : x.candidate = c})

\* faulty variant: the collection without its unique index
NoUniqueIndex(v, e) == FALSE

\* the unique index {voter, election}: a save of a second document with the
\* same key is refused with error code 11000
DuplicateKey(v, e) == FindVote(v, e) # {}

(* ------------------------------------------------------------- responses *)
Response(s, m) == [status |-> s, message |-> m]
NoResponse == Response(0, "")

ResElectionNotFound == Response(404, "Election not found")
ResNotActive == Response(400, "Election is not active")
ResNotStarted == Response(400, "Election has not started yet")
ResEnded == Response(400, "Election has ended")
ResCandidateNotFound == Response(404, "Candidate not found in this election")
ResAlreadyVoted == Response(400, "You have already voted in this election")
ResVoteCast == Response(201, "Vote cast successfully")
ResServerError == Response(500, "Server error")
ResOk == Response(200, "")
ResCandidateMissing == Response(404, "Candidate not found")
ResCandidateHasVotes == Response(400, "Cannot delete candidate with existing votes")
ResCandidateDeleted == Response(200, "Candidate deleted successfully")
ResDatesLocked == Response(400, "Cannot modify dates after voting has started")
ResElectionHasVotes == Response(400, "Cannot delete election with existing votes")
ResElectionDeleted == Response(200, "Election deleted successfully")
ResCandidateExists == Response(400, "Candidate already exists in this election")
ResCreated == Response(201, "")

(* -------------------------------------------------------------- requests *)
\* a request that has not arrived yet
IdleRequest == [kind |-> "none", pc |-> "idle"]

\* requests are interchangeable: they arrive in the order of their numbers
CanStart(r) ==
    /\ req[r].pc = "idle"
    /\ IF r = 1 THEN TRUE ELSE req[r - 1].pc # "idle"

At(r, k, p) == req[r].kind = k /\ req[r].pc = p

\* res.status(...).json(...): the handler returns and its locals are gone
Reply(r, response) ==
    req' = [req EXCEPT ![r].pc = "done", ![r].res = response]

\* the same for an administrative request, of which the target id is kept
Finish(r, response) ==
    req' = [req EXCEPT ![r] = [kind |-> req[r].kind, pc |-> "done",
                               id |-> req[r].id, res |-> response]]

\* Model.findById(id) on the Election collection: the document or null
FindElectionById(e) ==
    IF elections[e].exists
    THEN [state |-> "doc", doc |-> elections[e]]
    ELSE [state |-> "null", doc |-> NoElection]

\* Model.findById(id) on the Candidate collection: the document or null
FindCandidateById(c) ==
    IF candidates[c].exists
    THEN [state |-> "doc", doc |-> candidates[c]]
    ELSE [state |-> "null", doc |-> NoCandidate]

(* ------------------------------------------ POST /api/elections/:id/vote *)
\* the locals of the vote handler that outlive one step, the effects the
\* request has had on the store, and its response
VoteRequest(v, e, c, again) ==
    [kind |-> "vote", pc |-> "findCandidate",
     voter |-> v, electionId |-> e, candidateId |-> c, retry |-> again,
     existingVote |-> "unset", timestamp |-> 0,
     inserted |-> FALSE, incremented |-> FALSE, fault |-> FALSE,
     res |-> NoResponse]

\* faulty variant: the end of the voting window taken as exclusive
CheckElectionExclusiveEnd(election, now) ==
    IF election.state = "null" THEN ResElectionNotFound
    ELSE IF ~election.doc.isActive THEN ResNotActive
    ELSE IF now < election.doc.startDate THEN ResNotStarted
    ELSE IF now >= election.doc.endDate THEN ResEnded
    ELSE NoResponse

\* lines 114-132: the response of the election checks, NoResponse when they pass
CheckElection(election, now) ==
    IF election.state = "null" THEN ResElectionNotFound
    ELSE IF ~election.doc.isActive THEN ResNotActive
    ELSE IF now < election.doc.startDate THEN ResNotStarted
    ELSE IF now > election.doc.endDate THEN ResEnded
    ELSE NoResponse

\* const election = await Election.findById(electionId); the checks on it
PostVote_findElection(r) ==
    /\ CanStart(r)
    /\ \E v \in Voters, e \in ElectionIds, c \in CandidateIds :
          LET again == \E x \in votes : x.voter = v /\ x.election = e /\ x.candidate = c
              rejection == CheckElection(FindElectionById(e), clock)
          IN req' = [req EXCEPT ![r] =
                        IF rejection = NoResponse
                        THEN VoteRequest(v, e, c, again)
                        ELSE [VoteRequest(v, e, c, again) EXCEPT
                                 !.pc = "done", !.res = rejection]]
    /\ UNCHANGED <<elections, candidates, votes, clock, client>>

\* faulty variant: the candidate lookup without the check of its result
PostVote_findCandidate_Unchecked(r) ==
    /\ At(r, "vote", "findCandidate")
    /\ req' = [req EXCEPT ![r].pc = "findVote"]
    /\ UNCHANGED <<elections, candidates, votes, clock, client>>

\* const candidate = await Candidate.findOne({_id: candidateId, election: electionId})
PostVote_findCandidate(r) ==
    /\ At(r, "vote", "findCandidate")
    /\ LET c == candidates[req[r].candidateId] IN
       IF c.exists /\ c.election = req[r].electionId
       THEN req' = [req EXCEPT ![r].pc = "findVote"]
       ELSE Reply(r, ResCandidateNotFound)
    /\ UNCHANGED <<elections, candidates, votes, clock, client>>

\* faulty variant: no lookup of an existing vote before the Vote is built
PostVote_findVote_NoLookup(r) ==
    /\ At(r, "vote", "findVote")
    /\ req' = [req EXCEPT ![r].pc = "save", ![r].existingVote = "null",
                          ![r].timestamp = clock]
    /\ UNCHANGED <<elections, candidates, votes, clock, client>>

\* const existingVote = await Vote.findOne({voter, election}); new Vote({...})
PostVote_findVote(r) ==
    /\ At(r, "vote", "findVote")
    /\ IF FindVote(req[r].voter, req[r].electionId) # {}
       THEN req' = [req EXCEPT ![r].pc = "done", ![r].existingVote = "doc",
                               ![r].res = ResAlreadyVoted]
       ELSE req' = [req EXCEPT ![r].pc = "save", ![r].existingVote = "null",
                               ![r].timestamp = clock]
    /\ UNCHANGED <<elections, candidates, votes, clock, client>>

\* faulty variant: a catch block that does not look at the error code
CatchAlwaysServerError(code) == ResServerError

\* the catch block: error.code === 11000 is answered as an already-voted
\* rejection, every other error as a server error
CatchResponse(code) ==
    IF code = 11000 THEN ResAlreadyVoted ELSE ResServerError

\* faulty variant: the counter incremented ahead of the insert
PostVote_save_IncrementFirst(r) ==
    /\ At(r, "vote", "save")
    /\ candidates' = [candidates EXCEPT ![req[r].candidateId].voteCount = @ + 1]
    /\ IF FindVote(req[r].voter, req[r].electionId) # {}
       THEN /\ req' = [req EXCEPT ![r].pc = "done", ![r].timestamp = 0,
                                  ![r].res = ResAlreadyVoted]
            /\ UNCHANGED votes
       ELSE /\ votes' = votes \cup {[voter |-> req[r].voter,
                                     candidate |-> req[r].candidateId,
                                     election |-> req[r].electionId,
                                     timestamp |-> req[r].timestamp]}
            /\ req' = [req EXCEPT ![r].pc = "done", ![r].inserted = TRUE,
                                  ![r].incremented = TRUE, ![r].timestamp = 0,
                                  ![r].res = ResVoteCast]
    /\ UNCHANGED <<elections, clock, client>>

\* await vote.save()
PostVote_save(r) ==
    /\ At(r, "vote", "save")
    /\ IF DuplicateKey(req[r].voter, req[r].electionId)
       THEN /\ req' = [req EXCEPT ![r].pc = "done", ![r].timestamp = 0,
                                  ![r].res = CatchResponse(11000)]
            /\ UNCHANGED votes
       ELSE /\ votes' = votes \cup {[voter |-> req[r].voter,
                                     candidate |-> req[r].candidateId,
                                     election |-> req[r].electionId,
                                     timestamp |-> req[r].timestamp]}
            /\ req' = [req EXCEPT ![r].pc = "inc", ![r].inserted = TRUE,
                                  ![r].timestamp = 0]
    /\ UNCHANGED <<elections, candidates, clock, client>>

\* faulty variant: the counter written as a value, not incremented in the store
SetVoteCount(c) ==
    IF candidates[c].exists
    THEN [candidates EXCEPT ![c].voteCount = 1]
    ELSE candidates

\* Candidate.findByIdAndUpdate(id, {$inc: {voteCount: 1}}): no document, no update
IncVoteCount(c) ==
    IF candidates[c].exists
    THEN [candidates EXCEPT ![c].voteCount = @ + 1]
    ELSE candidates

\* await Candidate.findByIdAndUpdate(candidateId, {$inc: {voteCount: 1}}); res.status(201)
PostVote_inc(r) ==
    /\ At(r, "vote", "inc")
    /\ candidates' = IncVoteCount(req[r].candidateId)
    /\ req' = [req EXCEPT ![r].pc = "done",
                          ![r].incremented = (candidates' # candidates),
                          ![r].res = ResVoteCast]
    /\ UNCHANGED <<elections, votes, clock, client>>

\* faulty variant: a failed write is tried again and never answered
PostVote_storeError_Retry(r) ==
    /\ req[r].kind = "vote" /\ req[r].pc \in {"save", "inc"}
    /\ req' = [req EXCEPT ![r].pc = "save", ![r].fault = TRUE]
    /\ UNCHANGED <<elections, candidates, votes, clock, client>>

\* a store write that fails with an error other than a duplicate key: the
\* handler's catch block answers 500
PostVote_storeError(r) ==
    /\ req[r].kind = "vote" /\ req[r].pc \in {"save", "inc"}
    /\ req' = [req EXCEPT ![r].pc = "done", ![r].fault = TRUE,
                          ![r].timestamp = 0, ![r].res = CatchResponse(0)]
    /\ UNCHANGED <<elections, candidates, votes, clock, client>>

(* ------------------------------------ GET /api/elections/:id/check-vote *)
\* .populate('candidate', 'name'): the candidate document the Vote refers to,
\* null when there is none
Populate(vote) ==
    IF candidates[vote.candidate].exists THEN vote.candidate ELSE "null"

\* the slots of the requests of a run that ends with a query
QueryRequests == 1..(NumRequests + 1)

\* const vote = await Vote.findOne({voter, election}).populate(...); res.json;
\* vote.candidate.name of a null candidate throws, and the catch answers 500
CheckVote(r) ==
    /\ CanStart(r)
    /\ \E u \in Voters, e \in ElectionIds :
          LET found == FindVote(u, e)
              candidate == IF found = {} THEN "null"
                           ELSE Populate(CHOOSE x \in found : TRUE)
              thrown == found # {} /\ candidate = "null"
          IN req' = [req EXCEPT ![r] =
                        [kind |-> "checkVote", pc |-> "done",
                         user |-> u, electionId |-> e,
                         hasVoted |-> (found # {} /\ ~thrown),
                         vote |-> candidate,
                         res |-> IF thrown THEN ResServerError ELSE ResOk]]
    /\ UNCHANGED <<elections, candidates, votes, clock, client>>

(* --------------------------------------- GET /api/elections/:id/results *)
\* the sequences that list the members of S once each
Orderings(S) ==
    {s \in [1..Cardinality(S) -> S] : \A i, j \in 1..Cardinality(S) : s[i] = s[j] => i = j}

\* Candidate.find({election}).sort({voteCount: -1}): the documents of the
\* election by descending voteCount; the store fixes no order among equal keys
FindCandidatesSorted(e) ==
    LET S == {c \in CandidateIds : candidates[c].exists /\ candidates[c].election = e}
    IN {[i \in DOMAIN s |-> [id |-> s[i], voteCount |-> candidates[s[i]].voteCount]] :
          s \in {t \in Orderings(S) :
                   \A i, j \in DOMAIN t :
                      i < j => candidates[t[i]].voteCount >= candidates[t[j]].voteCount}}

\* const election = await Election.findById(req.params.id)
GetResults_findElection(r) ==
    /\ CanStart(r)
    /\ \E u \in Voters, e \in ElectionIds :
          req' = [req EXCEPT ![r] =
                    [kind |-> "results", pc |-> "findCandidates",
                     user |-> u, electionId |-> e,
                     election |-> FindElectionById(e),
                     candidates |-> <<>>, totalVotes |-> 0,
                     userVote |-> "null", hasVoted |-> FALSE,
                     res |-> NoResponse]]
    /\ UNCHANGED <<elections, candidates, votes, clock, client>>

\* if (!election) 404; const candidates = await Candidate.find(...).sort(...)
GetResults_findCandidates(r) ==
    /\ At(r, "results", "findCandidates")
    /\ IF req[r].election.state = "null"
       THEN Reply(r, ResElectionNotFound)
       ELSE \E cs \in FindCandidatesSorted(req[r].electionId) :
               req' = [req EXCEPT ![r].pc = "countVotes", ![r].candidates = cs]
    /\ UNCHANGED <<elections, candidates, votes, clock, client>>

\* const totalVotes = await Vote.countDocuments({election: req.params.id})
GetResults_countVotes(r) ==
    /\ At(r, "results", "countVotes")
    /\ req' = [req EXCEPT ![r].pc = "findUserVote",
                          ![r].totalVotes = CountVotesOfElection(req[r].electionId)]
    /\ UNCHANGED <<elections, candidates, votes, clock, client>>

\* const userVote = await Vote.findOne({voter, election}).populate('candidate'); res.json
GetResults_findUserVote(r) ==
    /\ At(r, "results", "findUserVote")
    /\ LET found == FindVote(req[r].user, req[r].electionId) IN
       req' = [req EXCEPT ![r].pc = "done",
                          ![r].userVote = IF found = {} THEN "null"
                                          ELSE Populate(CHOOSE x \in found : TRUE),
                          ![r].hasVoted = (found # {}),
                          ![r].res = ResOk]
    /\ UNCHANGED <<elections, candidates, votes, clock, client>>

(* ------------------------------------------------ pages/Results.tsx *)
\* isElectionEnded(): new Date() > new Date(results.election.endDate)
isElectionEnded(results, now) == now > results.election.doc.endDate

\* winner && isElectionEnded() && results.totalVotes > 0, where winner is
\* results.candidates[0], or null when there are no candidates
WinnerShown(results, now) ==
    /\ Len(results.candidates) > 0
    /\ isElectionEnded(results, now)
    /\ results.totalVotes > 0

\* the page renders the response of GET /api/elections/:id/results
Results_render(r) ==
    /\ At(r, "results", "done")
    /\ req[r].res = ResOk
    /\ req' = [req EXCEPT ![r] =
                 [kind |-> "resultsPage", pc |-> "rendered",
                  election |-> req[r].election.doc,
                  candidates |-> req[r].candidates,
                  totalVotes |-> req[r].totalVotes,
                  now |-> clock,
                  winner |-> IF WinnerShown(req[r], clock)
                             THEN req[r].candidates[1].id ELSE "none"]]
    /\ UNCHANGED <<elections, candidates, votes, clock, client>>

(* --------------------------------------- PUT /api/admin/elections/:id *)
\* the request bodies an administrator sends
ElectionBodies == {[isActive |-> FALSE], [endDate |-> MaxTime]}

\* Object.keys(req.body).forEach(key => doc[key] = req.body[key]): the paths
\* of the loaded document whose value the body changed; save() writes these
Modified(doc, body) == {k \in DOMAIN body : body[k] # doc[k]}

\* doc.save() of a loaded document: $set of the modified paths on the stored one
SaveModified(stored, doc, body) ==
    [k \in DOMAIN stored |-> IF k \in Modified(doc, body) THEN body[k] ELSE stored[k]]

\* the bodies that change one date of an election
DateBodies ==
    {[startDate |-> t] : t \in 0..MaxTime} \cup {[endDate |-> t] : t \in 0..MaxTime}

\* the validator of the endDate path of electionSchema, run by save() on the
\* document as loaded and assigned: value > this.startDate
EndDateValid(doc) == doc.endDate > doc.startDate

\* the loaded document after the keys of the body are assigned to it
Assigned(doc, body) ==
    [k \in DOMAIN doc |-> IF k \in DOMAIN body THEN body[k] ELSE doc[k]]

\* const election = await Election.findById(req.params.id), for a body of bodies
PutElection_receive(r, bodies) ==
    /\ CanStart(r)
    /\ \E e \in ElectionIds, b \in bodies :
          req' = [req EXCEPT ![r] =
                    [kind |-> "putElection", pc |-> "countVotes",
                     id |-> e, body |-> b, election |-> FindElectionById(e),
                     res |-> NoResponse]]
    /\ UNCHANGED <<elections, candidates, votes, clock, client>>

\* const election = await Election.findById(req.params.id)
PutElection_find(r) == PutElection_receive(r, ElectionBodies)

\* the same request with a body that changes one date
PutElection_findDates(r) == PutElection_receive(r, DateBodies)

\* if (!election) 404; const voteCount = await Vote.countDocuments({election}); date check
PutElection_countVotes(r) ==
    /\ At(r, "putElection", "countVotes")
    /\ IF req[r].election.state = "null"
       THEN Finish(r, ResElectionNotFound)
       ELSE IF /\ CountVotesOfElection(req[r].id) > 0
               /\ {"startDate", "endDate"} \cap DOMAIN req[r].body # {}
       THEN Finish(r, ResDatesLocked)
       ELSE req' = [req EXCEPT ![r].pc = "save"]
    /\ UNCHANGED <<elections, candidates, votes, clock, client>>

\* the keys of the body are assigned; await election.save() validates the
\* document and writes its modified paths; res.json(election); a refused or
\* failed save is answered by the catch
PutElection_save(r) ==
    /\ At(r, "putElection", "save")
    /\ IF ~EndDateValid(Assigned(req[r].election.doc, req[r].body))
       THEN /\ Finish(r, ResServerError)
            /\ UNCHANGED elections
       ELSE IF elections[req[r].id].exists
       THEN /\ elections' = [elections EXCEPT ![req[r].id] =
                                SaveModified(@, req[r].election.doc, req[r].body)]
            /\ Finish(r, ResOk)
       ELSE /\ Finish(r, ResServerError)
            /\ UNCHANGED elections
    /\ UNCHANGED <<candidates, votes, clock, client>>

(* ------------------------------------------ POST /api/admin/elections *)
ResEndBeforeStart == Response(400, "End date must be after start date")

\* if (end <= start) 400; new Election({startDate, endDate, ...});
\* await election.save(), which validates the document; 201
PostElection(r) ==
    /\ CanStart(r)
    /\ \E start \in 0..MaxTime, end \in 0..MaxTime :
          IF end <= start
          THEN /\ req' = [req EXCEPT ![r] =
                            [kind |-> "postElection", pc |-> "done",
                             id |-> "null", res |-> ResEndBeforeStart]]
               /\ UNCHANGED elections
          ELSE IF ~EndDateValid(NewElection(start, end))
          THEN /\ req' = [req EXCEPT ![r] =
                            [kind |-> "postElection", pc |-> "done",
                             id |-> "null", res |-> ResServerError]]
               /\ UNCHANGED elections
          ELSE \E e \in ElectionIds :
                  /\ ~elections[e].exists
                  /\ elections' = [elections EXCEPT ![e] = NewElection(start, end)]
                  /\ req' = [req EXCEPT ![r] =
                               [kind |-> "postElection", pc |-> "done",
                                id |-> e, res |-> ResCreated]]
    /\ UNCHANGED <<candidates, votes, clock, client>>

(* -------------------------- POST /api/admin/elections/:id/candidates *)
\* faulty variant: the collection without its unique index
NoCandidateIndex(id, doc) == FALSE

\* the unique index {name, election} of the Candidate collection: writing doc
\* under id ("null" for a new document) is refused with error code 11000 when
\* another candidate has its key
DuplicateCandidate(id, doc) ==
    \E c \in CandidateIds \ {id} :
        /\ candidates[c].exists
        /\ candidates[c].name = doc.name /\ candidates[c].election = doc.election

\* const election = await Election.findById(req.params.id)
PostCandidate_find(r) ==
    /\ CanStart(r)
    /\ \E e \in ElectionIds, n \in Names :
          req' = [req EXCEPT ![r] =
                    [kind |-> "postCandidate", pc |-> "save",
                     id |-> e, name |-> n, election |-> FindElectionById(e),
                     res |-> NoResponse]]
    /\ UNCHANGED <<elections, candidates, votes, clock, client>>

\* if (!election) 404; new Candidate({name, election}); await candidate.save();
\* the new document gets an id that no candidate has
PostCandidate_save(r) ==
    /\ At(r, "postCandidate", "save")
    /\ IF req[r].election.state = "null"
       THEN /\ Finish(r, ResElectionNotFound)
            /\ UNCHANGED candidates
       ELSE LET doc == NewCandidate(req[r].name, req[r].id) IN
            IF DuplicateCandidate("null", doc)
            THEN /\ Finish(r, ResCandidateExists)
                 /\ UNCHANGED candidates
            ELSE \E c \in CandidateIds :
                    /\ ~candidates[c].exists
                    /\ candidates' = [candidates EXCEPT ![c] = doc]
                    /\ Finish(r, ResCreated)
    /\ UNCHANGED <<elections, votes, clock, client>>

(* -------------------------------------- PUT /api/admin/candidates/:id *)
CandidateBodies == {[voteCount |-> 0], [voteCount |-> 1], [election |-> "e2"]}

\* the bodies that rename a candidate
NameBodies == {[name |-> n] : n \in Names}

\* const candidate = await Candidate.findById(req.params.id), for a body of bodies
PutCandidate_receive(r, bodies) ==
    /\ CanStart(r)
    /\ \E c \in CandidateIds, b \in bodies :
          req' = [req EXCEPT ![r] =
                    [kind |-> "putCandidate", pc |-> "save",
                     id |-> c, body |-> b, candidate |-> FindCandidateById(c),
                     res |-> NoResponse]]
    /\ UNCHANGED <<elections, candidates, votes, clock, client>>

\* const candidate = await Candidate.findById(req.params.id)
PutCandidate_find(r) == PutCandidate_receive(r, CandidateBodies)

\* the same request with a body that renames the candidate
PutCandidate_findRename(r) == PutCandidate_receive(r, NameBodies)

\* the same request with a body that names another election
PutCandidate_findMove(r) == PutCandidate_receive(r, {[election |-> "e2"]})

\* if (!candidate) 404; assign the body's keys; await candidate.save(); a save
\* that changes no path writes nothing, a refused one is answered by the catch
PutCandidate_save(r) ==
    /\ At(r, "putCandidate", "save")
    /\ IF req[r].candidate.state = "null"
       THEN /\ Finish(r, ResCandidateMissing)
            /\ UNCHANGED candidates
       ELSE IF Modified(req[r].candidate.doc, req[r].body) = {}
       THEN /\ Finish(r, ResOk)
            /\ UNCHANGED candidates
       ELSE IF candidates[req[r].id].exists
       THEN LET doc == SaveModified(candidates[req[r].id], req[r].candidate.doc,
                                    req[r].body)
            IN IF DuplicateCandidate(req[r].id, doc)
               THEN /\ Finish(r, ResServerError)
                    /\ UNCHANGED candidates
               ELSE /\ candidates' = [candidates EXCEPT ![req[r].id] = doc]
                    /\ Finish(r, ResOk)
       ELSE /\ Finish(r, ResServerError)
            /\ UNCHANGED candidates
    /\ UNCHANGED <<elections, votes, clock, client>>

(* ----------------------------------- DELETE /api/admin/candidates/:id *)
\* const candidate = await Candidate.findById(req.params.id)
DeleteCandidate_find(r) ==
    /\ CanStart(r)
    /\ \E c \in CandidateIds :
          req' = [req EXCEPT ![r] =
                    [kind |-> "deleteCandidate", pc |-> "countVotes",
                     id |-> c, candidate |-> FindCandidateById(c),
                     res |-> NoResponse]]
    /\ UNCHANGED <<elections, candidates, votes, clock, client>>

\* faulty variant: the deletion without the check of the vote count
DeleteCandidate_countVotes_Unchecked(r) ==
    /\ At(r, "deleteCandidate", "countVotes")
    /\ IF req[r].candidate.state = "null"
       THEN Finish(r, ResCandidateMissing)
       ELSE req' = [req EXCEPT ![r].pc = "delete"]
    /\ UNCHANGED <<elections, candidates, votes, clock, client>>

\* if (!candidate) 404; const voteCount = await Vote.countDocuments({candidate})
DeleteCandidate_countVotes(r) ==
    /\ At(r, "deleteCandidate", "countVotes")
    /\ IF req[r].candidate.state = "null"
       THEN Finish(r, ResCandidateMissing)
       ELSE IF CountVotesOfCandidate(req[r].id) > 0
       THEN Finish(r, ResCandidateHasVotes)
       ELSE req' = [req EXCEPT ![r].pc = "delete"]
    /\ UNCHANGED <<elections, candidates, votes, clock, client>>

\* await Candidate.findByIdAndDelete(req.params.id); res.json
DeleteCandidate_delete(r) ==
    /\ At(r, "deleteCandidate", "delete")
    /\ candidates' = [candidates EXCEPT ![req[r].id] = NoCandidate]
    /\ Finish(r, ResCandidateDeleted)
    /\ UNCHANGED <<elections, votes, clock, client>>

(* ------------------------------------ DELETE /api/admin/elections/:id *)
\* const election = await Election.findById(req.params.id)
DeleteElection_find(r) ==
    /\ CanStart(r)
    /\ \E e \in ElectionIds :
          req' = [req EXCEPT ![r] =
                    [kind |-> "deleteElection", pc |-> "countVotes",
                     id |-> e, election |-> FindElectionById(e),
                     voteCount |-> 0, res |-> NoResponse]]
    /\ UNCHANGED <<elections, candidates, votes, clock, client>>

\* faulty variant: the deletion without the check of the vote count
DeleteElection_countVotes_Unchecked(r) ==
    /\ At(r, "deleteElection", "countVotes")
    /\ IF req[r].election.state = "null"
       THEN Finish(r, ResElectionNotFound)
       ELSE req' = [req EXCEPT ![r].pc = "deleteCandidates"]
    /\ UNCHANGED <<elections, candidates, votes, clock, client>>

\* if (!election) 404; const voteCount = await Vote.countDocuments({election})
DeleteElection_countVotes(r) ==
    /\ At(r, "deleteElection", "countVotes")
    /\ LET voteCount == CountVotesOfElection(req[r].id) IN
       IF req[r].election.state = "null"
       THEN Finish(r, ResElectionNotFound)
       ELSE IF voteCount > 0
       THEN Finish(r, ResElectionHasVotes)
       ELSE req' = [req EXCEPT ![r].pc = "deleteCandidates", ![r].voteCount = voteCount]
    /\ UNCHANGED <<elections, candidates, votes, clock, client>>

\* await Candidate.deleteMany({election: req.params.id})
DeleteElection_deleteCandidates(r) ==
    /\ At(r, "deleteElection", "deleteCandidates")
    /\ candidates' = [c \in CandidateIds |->
                        IF candidates[c].exists /\ candidates[c].election = req[r].id
                        THEN NoCandidate ELSE candidates[c]]
    /\ req' = [req EXCEPT ![r].pc = "delete"]
    /\ UNCHANGED <<elections, votes, clock, client>>

\* faulty variant: a deletion that takes the votes of the election along
DeleteElection_delete_WithVotes(r) ==
    /\ At(r, "deleteElection", "delete")
    /\ elections' = [elections EXCEPT ![req[r].id] = NoElection]
    /\ votes' = {x \in votes : x.election # req[r].id}
    /\ Finish(r, ResElectionDeleted)
    /\ UNCHANGED <<candidates, clock, client>>

\* await Election.findByIdAndDelete(req.params.id); res.json
DeleteElection_delete(r) ==
    /\ At(r, "deleteElection", "delete")
    /\ elections' = [elections EXCEPT ![req[r].id] = NoElection]
    /\ Finish(r, ResElectionDeleted)
    /\ UNCHANGED <<candidates, votes, clock, client>>

(* ------------------------------------------------------------ wall clock *)
Tick ==
    /\ clock < MaxTime
    /\ clock' = clock + 1
    /\ UNCHANGED <<elections, candidates, votes, req, client>>

(* ---------------------------------------------------------------- system *)
\* one election with two candidates; "e2" was never created
Init ==
    /\ elections = [e \in ElectionIds |->
                      IF e = "e1" THEN NewElection(1, 2) ELSE NoElection]
    /\ candidates = [c \in CandidateIds |-> NewCandidate(NameOf(c), "e1")]
    /\ votes = {}
    /\ clock = 0
    /\ req = [r \in Requests |-> IdleRequest]
    /\ client = InitialClient

\* two elections with one candidate each
InitTwoElections ==
    /\ elections = [e \in ElectionIds |-> NewElection(1, 2)]
    /\ candidates = [c \in CandidateIds |->
                       NewCandidate(NameOf(c), IF c = "c1" THEN "e1" ELSE "e2")]
    /\ votes = {}
    /\ clock = 0
    /\ req = [r \in Requests |-> IdleRequest]
    /\ client = InitialClient

\* one election of any valid configuration, at any instant
InitAnyElection ==
    /\ \E a \in BOOLEAN, s \in 0..MaxTime, e \in 0..MaxTime :
          /\ e > s
          /\ elections = [x \in ElectionIds |->
                            IF x = "e1" THEN [NewElection(s, e) EXCEPT !.isActive = a]
                            ELSE NoElection]
    /\ candidates = [c \in CandidateIds |-> NewCandidate(NameOf(c), "e1")]
    /\ votes = {}
    /\ clock \in 0..MaxTime
    /\ req = [r \in Requests |-> IdleRequest]
    /\ client = InitialClient

\* admissions and administration
Next ==
    \/ \E r \in Requests : PostVote_findElection(r)
    \/ \E r \in Requests : PostVote_findCandidate(r)
    \/ \E r \in Requests : PostVote_findVote(r)
    \/ \E r \in Requests : PostVote_save(r)
    \/ \E r \in Requests : PostVote_inc(r)
    \/ \E r \in Requests : PostVote_storeError(r)
    \/ \E r \in Requests : PutElection_find(r)
    \/ \E r \in Requests : PutElection_countVotes(r)
    \/ \E r \in Requests : PutElection_save(r)
    \/ \E r \in Requests : PutCandidate_find(r)
    \/ \E r \in Requests : PutCandidate_save(r)
    \/ \E r \in Requests : DeleteCandidate_find(r)
    \/ \E r \in Requests : DeleteCandidate_countVotes(r)
    \/ \E r \in Requests : DeleteCandidate_delete(r)
    \/ Tick

Spec == Init /\ [][Next]_vars

\* admissions, candidate updates and result queries
NextResults ==
    \/ \E r \in Requests : PostVote_findElection(r)
    \/ \E r \in Requests : PostVote_findCandidate(r)
    \/ \E r \in Requests : PostVote_findVote(r)
    \/ \E r \in Requests : PostVote_save(r)
    \/ \E r \in Requests : PostVote_inc(r)
    \/ \E r \in Requests : PostVote_storeError(r)
    \/ \E r \in Requests : GetResults_findElection(r)
    \/ \E r \in Requests : GetResults_findCandidates(r)
    \/ \E r \in Requests : GetResults_countVotes(r)
    \/ \E r \in Requests : GetResults_findUserVote(r)
    \/ \E r \in Requests : PutCandidate_find(r)
    \/ \E r \in Requests : PutCandidate_save(r)
    \/ Tick

SpecResults == InitTwoElections /\ [][NextResults]_vars

\* the steps of the admission request r after its first
PostVote_resume(r) ==
    \/ PostVote_findCandidate(r)
    \/ PostVote_findVote(r)
    \/ PostVote_save(r)
    \/ PostVote_inc(r)
    \/ PostVote_storeError(r)

\* one election with two candidates, at any time before, within or after its
\* voting window
InitLive ==
    /\ elections = [e \in ElectionIds |->
                      IF e = "e1" THEN NewElection(1, 2) ELSE NoElection]
    /\ candidates = [c \in CandidateIds |-> NewCandidate(NameOf(c), "e1")]
    /\ votes = {}
    /\ clock \in 0..MaxTime
    /\ req = [r \in Requests |-> IdleRequest]
    /\ client = InitialClient

\* admissions beside one another, updates of the election and deletions of
\* candidates
NextLive ==
    \/ \E r \in Requests : PostVote_findElection(r)
    \/ \E r \in Requests : PostVote_findCandidate(r)
    \/ \E r \in Requests : PostVote_findVote(r)
    \/ \E r \in Requests : PostVote_save(r)
    \/ \E r \in Requests : PostVote_inc(r)
    \/ \E r \in Requests : PostVote_storeError(r)
    \/ \E r \in Requests : PutElection_find(r)
    \/ \E r \in Requests : PutElection_countVotes(r)
    \/ \E r \in Requests : PutElection_save(r)
    \/ \E r \in Requests : DeleteCandidate_find(r)
    \/ \E r \in Requests : DeleteCandidate_countVotes(r)
    \/ \E r \in Requests : DeleteCandidate_delete(r)

\* every store operation a handler awaits resolves or rejects, and the event
\* loop then runs the handler's continuation
SpecLive ==
    /\ InitLive
    /\ [][NextLive]_vars
    /\ \A r \in Requests : WF_vars(PostVote_resume(r))

\* result queries on one election with two candidates
SpecTally == Init /\ [][NextResults]_vars

\* admissions and the deletion of candidates and elections
NextDelete ==
    \/ \E r \in Requests : PostVote_findElection(r)
    \/ \E r \in Requests : PostVote_findCandidate(r)
    \/ \E r \in Requests : PostVote_findVote(r)
    \/ \E r \in Requests : PostVote_save(r)
    \/ \E r \in Requests : PostVote_inc(r)
    \/ \E r \in Requests : PostVote_storeError(r)
    \/ \E r \in Requests : DeleteCandidate_find(r)
    \/ \E r \in Requests : DeleteCandidate_countVotes(r)
    \/ \E r \in Requests : DeleteCandidate_delete(r)
    \/ \E r \in Requests : DeleteElection_find(r)
    \/ \E r \in Requests : DeleteElection_countVotes(r)
    \/ \E r \in Requests : DeleteElection_deleteCandidates(r)
    \/ \E r \in Requests : DeleteElection_delete(r)
    \/ Tick

SpecDelete == Init /\ [][NextDelete]_vars

\* an open election with two candidates, and room for one more request
InitOpen ==
    /\ elections = [e \in ElectionIds |->
                      IF e = "e1" THEN NewElection(1, 2) ELSE NoElection]
    /\ candidates = [c \in CandidateIds |-> NewCandidate(NameOf(c), "e1")]
    /\ votes = {}
    /\ clock = 1
    /\ req = [r \in QueryRequests |-> IdleRequest]
    /\ client = InitialClient

\* admissions, candidate deletions and the queries of a voter's vote
NextQuery ==
    \/ \E r \in QueryRequests : PostVote_findElection(r)
    \/ \E r \in QueryRequests : PostVote_findCandidate(r)
    \/ \E r \in QueryRequests : PostVote_findVote(r)
    \/ \E r \in QueryRequests : PostVote_save(r)
    \/ \E r \in QueryRequests : PostVote_inc(r)
    \/ \E r \in QueryRequests : DeleteCandidate_find(r)
    \/ \E r \in QueryRequests : DeleteCandidate_countVotes(r)
    \/ \E r \in QueryRequests : DeleteCandidate_delete(r)
    \/ \E r \in QueryRequests : CheckVote(r)
    \/ \E r \in QueryRequests : GetResults_findElection(r)
    \/ \E r \in QueryRequests : GetResults_findCandidates(r)
    \/ \E r \in QueryRequests : GetResults_countVotes(r)
    \/ \E r \in QueryRequests : GetResults_findUserVote(r)

SpecQuery == InitOpen /\ [][NextQuery]_vars

\* the candidate each voter chooses in the elections that start with votes
Choice(v) == IF v = "v1" THEN "c1" ELSE "c2"

\* one election of any valid configuration at any instant, with the votes of
\* any of the voters, each admitted when the election opened
InitVoted ==
    /\ \E a \in BOOLEAN, s \in 0..MaxTime, e \in 0..MaxTime, voted \in SUBSET Voters :
          /\ e > s
          /\ elections = [x \in ElectionIds |->
                            IF x = "e1" THEN [NewElection(s, e) EXCEPT !.isActive = a]
                            ELSE NoElection]
          /\ clock \in (IF voted # {} THEN s ELSE 0)..MaxTime
          /\ votes = {[voter |-> v, candidate |-> Choice(v), election |-> "e1",
                       timestamp |-> s] : v \in voted}
          /\ candidates = [c \in CandidateIds |->
                              [NewCandidate(NameOf(c), "e1") EXCEPT
                                  !.voteCount = Cardinality({v \in voted : Choice(v) = c})]]
    /\ req = [r \in Requests |-> IdleRequest]
    /\ client = InitialClient

\* result queries and the page that shows them
NextPage ==
    \/ \E r \in Requests : GetResults_findElection(r)
    \/ \E r \in Requests : GetResults_findCandidates(r)
    \/ \E r \in Requests : GetResults_countVotes(r)
    \/ \E r \in Requests : GetResults_findUserVote(r)
    \/ \E r \in Requests : Results_render(r)
    \/ Tick

SpecPage == InitVoted /\ [][NextPage]_vars

\* one election with one candidate; the other candidate id is free
InitCandidates ==
    /\ elections = [e \in ElectionIds |->
                      IF e = "e1" THEN NewElection(1, 2) ELSE NoElection]
    /\ candidates = [c \in CandidateIds |->
                       IF c = "c1" THEN NewCandidate(NameOf(c), "e1") ELSE NoCandidate]
    /\ votes = {}
    /\ clock = 0
    /\ req = [r \in Requests |-> IdleRequest]
    /\ client = InitialClient

\* the creation and renaming of candidates and the deletion of elections
NextCandidates ==
    \/ \E r \in Requests : PostCandidate_find(r)
    \/ \E r \in Requests : PostCandidate_save(r)
    \/ \E r \in Requests : PutCandidate_findRename(r)
    \/ \E r \in Requests : PutCandidate_save(r)
    \/ \E r \in Requests : DeleteElection_find(r)
    \/ \E r \in Requests : DeleteElection_countVotes(r)
    \/ \E r \in Requests : DeleteElection_deleteCandidates(r)
    \/ \E r \in Requests : DeleteElection_delete(r)

SpecCandidates == InitCandidates /\ [][NextCandidates]_vars

\* the election checks of admission on every election configuration
NextClock ==
    \/ \E r \in Requests : PostVote_findElection(r)
    \/ \E r \in Requests : PostVote_findCandidate(r)

SpecClock == InitAnyElection /\ [][NextClock]_vars

\* electionSchema.virtual('isRunning')
isRunning(election, now) ==
    election.isActive /\ now >= election.startDate /\ now <= election.endDate

\* electionSchema.virtual('hasEnded')
hasEnded(election, now) == now > election.endDate

\* getElectionStatus of the Elections page and of the admin dashboard
getElectionStatus(election, now) ==
    IF ~election.isActive THEN "inactive"
    ELSE IF now < election.startDate THEN "upcoming"
    ELSE IF now >= election.startDate /\ now <= election.endDate THEN "active"
    ELSE "ended"

\* isElectionActive of the Vote page; false while no election data is loaded
isElectionActive(electionData, now) ==
    IF electionData.state = "null" THEN FALSE
    ELSE /\ electionData.doc.isActive
         /\ now >= electionData.doc.startDate /\ now <= electionData.doc.endDate

\* a call site evaluates its function on the election as stored and the
\* clock as it stands
Evaluate(r, site, value) ==
    /\ CanStart(r)
    /\ elections["e1"].exists
    /\ req' = [req EXCEPT ![r] =
                 [kind |-> "status", pc |-> "done", site |-> site,
                  election |-> elections["e1"], now |-> clock, value |-> value]]
    /\ UNCHANGED <<elections, candidates, votes, clock, client>>

Election_isRunning(r) ==
    Evaluate(r, "isRunning", isRunning(elections["e1"], clock))

Election_hasEnded(r) ==
    Evaluate(r, "hasEnded", hasEnded(elections["e1"], clock))

Elections_getElectionStatus(r) ==
    Evaluate(r, "Elections.getElectionStatus",
             getElectionStatus(elections["e1"], clock))

AdminDashboard_getElectionStatus(r) ==
    Evaluate(r, "AdminDashboard.getElectionStatus",
             getElectionStatus(elections["e1"], clock))

Vote_isElectionActive(r) ==
    Evaluate(r, "isElectionActive",
             isElectionActive(FindElectionById("e1"), clock))

Results_isElectionEnded(r) ==
    Evaluate(r, "isElectionEnded",
             isElectionEnded([election |-> FindElectionById("e1")], clock))

\* the call sites that derive the state of an election, on any election at
\* any time
NextStatus ==
    \/ \E r \in Requests : Election_isRunning(r)
    \/ \E r \in Requests : Election_hasEnded(r)
    \/ \E r \in Requests : Elections_getElectionStatus(r)
    \/ \E r \in Requests : AdminDashboard_getElectionStatus(r)
    \/ \E r \in Requests : Vote_isElectionActive(r)
    \/ \E r \in Requests : Results_isElectionEnded(r)
    \/ Tick

SpecStatus == InitAnyElection /\ [][NextStatus]_vars

\* two open elections with one candidate each, and the votes of any of the
\* voters for the candidate of the first, each admitted when it opened
InitTwoVoted ==
    /\ elections = [e \in ElectionIds |-> NewElection(1, 2)]
    /\ \E voted \in SUBSET Voters :
          /\ votes = {[voter |-> v, candidate |-> "c1", election |-> "e1",
                       timestamp |-> 1] : v \in voted}
          /\ candidates = [c \in CandidateIds |->
                              IF c = "c1"
                              THEN [NewCandidate(NameOf(c), "e1") EXCEPT
                                       !.voteCount = Cardinality(voted)]
                              ELSE NewCandidate(NameOf(c), "e2")]
    /\ clock = 1
    /\ req = [r \in Requests |-> IdleRequest]
    /\ client = InitialClient

\* admissions, result queries and candidate updates that write no voteCount
NextMove ==
    \/ \E r \in Requests : PostVote_findElection(r)
    \/ \E r \in Requests : PostVote_findCandidate(r)
    \/ \E r \in Requests : PostVote_findVote(r)
    \/ \E r \in Requests : PostVote_save(r)
    \/ \E r \in Requests : PostVote_inc(r)
    \/ \E r \in Requests : PostVote_storeError(r)
    \/ \E r \in Requests : GetResults_findElection(r)
    \/ \E r \in Requests : GetResults_findCandidates(r)
    \/ \E r \in Requests : GetResults_countVotes(r)
    \/ \E r \in Requests : GetResults_findUserVote(r)
    \/ \E r \in Requests : PutCandidate_findMove(r)
    \/ \E r \in Requests : PutCandidate_save(r)
    \/ Tick

SpecMove == InitTwoVoted /\ [][NextMove]_vars

\* creations of elections and updates of their dates, beside admissions
NextDates ==
    \/ \E r \in Requests : PostElection(r)
    \/ \E r \in Requests : PutElection_findDates(r)
    \/ \E r \in Requests : PutElection_countVotes(r)
    \/ \E r \in Requests : PutElection_save(r)
    \/ \E r \in Requests : PostVote_findElection(r)
    \/ \E r \in Requests : PostVote_findCandidate(r)
    \/ \E r \in Requests : PostVote_findVote(r)
    \/ \E r \in Requests : PostVote_save(r)
    \/ \E r \in Requests : PostVote_inc(r)
    \/ \E r \in Requests : PostVote_storeError(r)
    \/ Tick

SpecDates == InitAnyElection /\ [][NextDates]_vars

\* any sequence of actions dispatched to the reducer
NextReducer == \E action \in AuthActions : Dispatch(action)

SpecReducer == Init /\ [][NextReducer]_vars

(* ------------------------------------------------ services/authService *)
\* authService.isAuthenticated(): auth data is stored
authService_isAuthenticated(c) == c.stored # "null"

\* authService.getStoredUser(): the stored user, or null
authService_getStoredUser(c) == c.stored

\* authService.storeAuthData(token, user)
authService_storeAuthData(c, user) == [c EXCEPT !.stored = user]

\* authService.logout(): the stored auth data is removed
authService_logout(c) == [c EXCEPT !.stored = "null"]

(* ---------------------------------------- AuthProvider of AuthContext *)
\* dispatch(action) on the client c
Reduced(c, action) == [c EXCEPT !.state = authReducer(@, action)]

\* a call of the provider returns
Return(r, k) == req' = [req EXCEPT ![r] = [kind |-> k, pc |-> "done"]]

\* checkAuth() up to its await: without stored auth data AUTH_FAIL, else
\* await authService.getCurrentUser() with storedUser kept as a local
CheckAuth_start(r) ==
    /\ CanStart(r)
    /\ IF /\ authService_isAuthenticated(client)
          /\ authService_getStoredUser(client) # "null"
       THEN /\ req' = [req EXCEPT ![r] =
                         [kind |-> "checkAuth", pc |-> "getCurrentUser",
                          storedUser |-> authService_getStoredUser(client)]]
            /\ UNCHANGED client
       ELSE /\ client' = Reduced(client, [type |-> "AUTH_FAIL"])
            /\ Return(r, "checkAuth")
    /\ UNCHANGED <<elections, candidates, votes, clock>>

\* getCurrentUser() resolves: dispatch AUTH_SUCCESS with storedUser
CheckAuth_resolve(r) ==
    /\ At(r, "checkAuth", "getCurrentUser")
    /\ client' = Reduced(client, [type |-> "AUTH_SUCCESS",
                                   payload |-> req[r].storedUser])
    /\ Return(r, "checkAuth")
    /\ UNCHANGED <<elections, candidates, votes, clock>>

\* getCurrentUser() rejects: authService.logout(); dispatch AUTH_FAIL
CheckAuth_reject(r) ==
    /\ At(r, "checkAuth", "getCurrentUser")
    /\ client' = Reduced(authService_logout(client), [type |-> "AUTH_FAIL"])
    /\ Return(r, "checkAuth")
    /\ UNCHANGED <<elections, candidates, votes, clock>>

\* login() or register() up to its await: dispatch AUTH_START
Enter_start(r, k) ==
    /\ CanStart(r)
    /\ client' = Reduced(client, [type |-> "AUTH_START"])
    /\ req' = [req EXCEPT ![r] = [kind |-> k, pc |-> "await"]]
    /\ UNCHANGED <<elections, candidates, votes, clock>>

\* the service resolves with {token, user}: storeAuthData; dispatch AUTH_SUCCESS
Enter_resolve(r, k) ==
    /\ At(r, k, "await")
    /\ \E user \in Voters :
          client' = Reduced(authService_storeAuthData(client, user),
                            [type |-> "AUTH_SUCCESS", payload |-> user])
    /\ Return(r, k)
    /\ UNCHANGED <<elections, candidates, votes, clock>>

\* the service rejects: dispatch AUTH_FAIL; throw error
Enter_reject(r, k) ==
    /\ At(r, k, "await")
    /\ client' = Reduced(client, [type |-> "AUTH_FAIL"])
    /\ Return(r, k)
    /\ UNCHANGED <<elections, candidates, votes, clock>>

Login_start(r) == Enter_start(r, "login")
Login_resolve(r) == Enter_resolve(r, "login")
Login_reject(r) == Enter_reject(r, "login")
Register_start(r) == Enter_start(r, "register")
Register_resolve(r) == Enter_resolve(r, "register")
Register_reject(r) == Enter_reject(r, "register")

\* logout(): authService.logout(); dispatch LOGOUT; it is called from the
\* Navbar, which renders nothing unless isAuthenticated
Logout(r) ==
    /\ CanStart(r)
    /\ client.state.isAuthenticated
    /\ client' = Reduced(authService_logout(client), [type |-> "LOGOUT"])
    /\ Return(r, "logout")
    /\ UNCHANGED <<elections, candidates, votes, clock>>

\* the page is loaded with or without the auth data of an earlier visit
InitAuth ==
    /\ elections = [e \in ElectionIds |->
                      IF e = "e1" THEN NewElection(1, 2) ELSE NoElection]
    /\ candidates = [c \in CandidateIds |-> NewCandidate(NameOf(c), "e1")]
    /\ votes = {}
    /\ clock = 0
    /\ req = [r \in Requests |-> IdleRequest]
    /\ \E user \in Voters \cup {"null"} :
          client = authService_storeAuthData(InitialClient, user)

\* the calls of the provider, each resumed when its request settles
NextAuth ==
    \/ \E r \in Requests : CheckAuth_start(r)
    \/ \E r \in Requests : CheckAuth_resolve(r)
    \/ \E r \in Requests : CheckAuth_reject(r)
    \/ \E r \in Requests : Login_start(r)
    \/ \E r \in Requests : Login_resolve(r)
    \/ \E r \in Requests : Login_reject(r)
    \/ \E r \in Requests : Register_start(r)
    \/ \E r \in Requests : Register_resolve(r)
    \/ \E r \in Requests : Register_reject(r)
    \/ \E r \in Requests : Logout(r)

SpecAuth == InitAuth /\ [][NextAuth]_vars

(* ---------------------------------------------------------------- claims *)
VoteRequests == {r \in Requests : req[r].kind = "vote"}
Done(r) == req[r].pc = "done"

\* the admission attempts made so far for voter v and election e
Attempts(v, e) == {r \in VoteRequests : req[r].voter = v /\ req[r].electionId = e}

\* the responses that reject an admission before the existing-vote check
EarlyRejections ==
    {ResElectionNotFound, ResNotActive, ResNotStarted, ResEnded, ResCandidateNotFound}

\* the four kinds of rejection of an admission
Rejections == EarlyRejections \cup {ResAlreadyVoted}

\* C1: whatever the interleaving and the candidates, the Vote collection never
\* holds two documents for one (voter, election); once every attempt for the
\* pair has completed it holds one, unless every attempt was rejected for a
\* reason other than uniqueness, and then it holds none.
C1_OneVotePerVoterAndElection ==
    \A v \in Voters, e \in ElectionIds :
        /\ Cardinality(FindVote(v, e)) <= 1
        /\ (\A r \in Attempts(v, e) : Done(r)) =>
              \/ Cardinality(FindVote(v, e)) = 1
              \/ /\ FindVote(v, e) = {}
                 /\ \A r \in Attempts(v, e) :
                       req[r].res \in EarlyRejections \cup {ResServerError}

\* two completed attempts of one voter for different candidates of one election
C1_Witness ==
    \E r1, r2 \in VoteRequests :
        /\ r1 # r2 /\ Done(r1) /\ Done(r2)
        /\ req[r1].voter = req[r2].voter /\ req[r1].electionId = req[r2].electionId
        /\ req[r1].candidateId # req[r2].candidateId
        /\ req[r1].res = ResVoteCast /\ req[r2].res = ResAlreadyVoted
        /\ Cardinality(FindVote(req[r1].voter, req[r1].electionId)) = 1

\* C2: of two or more completed attempts of one voter for one election that
\* all passed the election and candidate checks and met no store failure,
\* exactly one was answered with success and every other one with the
\* already-voted rejection, never with a server error.
C2_OneWinnerOthersAlreadyVoted ==
    \A v \in Voters, e \in ElectionIds :
        LET A == Attempts(v, e) IN
        ( /\ Cardinality(A) >= 2
          /\ \A r \in A : Done(r) /\ req[r].res \notin EarlyRejections /\ ~req[r].fault )
        => /\ Cardinality({r \in A : req[r].res = ResVoteCast}) = 1
           /\ \A r \in A : req[r].res \in {ResVoteCast, ResAlreadyVoted}

\* a race decided by the unique index: the loser saw no vote at its lookup
C2_Witness ==
    \E r1, r2 \in VoteRequests :
        /\ r1 # r2 /\ Done(r1) /\ Done(r2)
        /\ req[r1].voter = req[r2].voter /\ req[r1].electionId = req[r2].electionId
        /\ req[r1].res = ResVoteCast
        /\ req[r2].res = ResAlreadyVoted /\ req[r2].existingVote = "null"

\* C3: a completed admission has inserted its Vote document exactly if it
\* has incremented the candidate's voteCount.
C3_InsertAndIncrementAtomic ==
    \A r \in VoteRequests : Done(r) => (req[r].inserted <=> req[r].incremented)

\* a step that request r takes as an admission
VoteStep(r) == req'[r] # req[r] /\ req'[r].kind = "vote"

\* the election of admission request r, as stored
StoredElection(r) == elections[req'[r].electionId]

\* the lifecycle conditions of the election clock, each stated on its own
InState(state, election, now) ==
    CASE state = "Inactive" -> ~election.isActive
      [] state = "Upcoming" -> election.isActive /\ now < election.startDate
      [] state = "Open" -> /\ election.isActive
                           /\ election.startDate <= now /\ now <= election.endDate
      [] state = "Closed" -> election.isActive /\ now > election.endDate

LifecycleStates == {"Inactive", "Upcoming", "Open", "Closed"}

\* the lifecycle states whose condition holds
StatesOf(election, now) == {st \in LifecycleStates : InState(st, election, now)}

NotOpenResponses == {ResNotActive, ResNotStarted, ResEnded}

\* C4: an admission evaluates (1) election exists, (2) election is Open,
\* (3) candidate exists in the election, (4) no vote of the voter in the
\* election, in this order, each on the store as it is when the check runs;
\* it is answered with the rejection of the first check that fails, and the
\* responses of the four kinds of rejection differ from one another.
C4_ChecksInOrder ==
    /\ ResElectionNotFound \notin NotOpenResponses \cup {ResCandidateNotFound, ResAlreadyVoted}
    /\ ResCandidateNotFound \notin NotOpenResponses \cup {ResAlreadyVoted}
    /\ ResAlreadyVoted \notin NotOpenResponses
    /\ [][\A r \in Requests : VoteStep(r) =>
            LET q == req'[r] IN
            CASE req[r].pc = "idle" ->
                   IF ~StoredElection(r).exists
                   THEN q.pc = "done" /\ q.res = ResElectionNotFound
                   ELSE IF "Open" \notin StatesOf(StoredElection(r), clock)
                   THEN q.pc = "done" /\ q.res \in NotOpenResponses
                   ELSE q.pc = "findCandidate" /\ q.res = NoResponse
              [] req[r].pc = "findCandidate" ->
                   IF /\ candidates[q.candidateId].exists
                      /\ candidates[q.candidateId].election = q.electionId
                   THEN q.pc = "findVote" /\ q.res = NoResponse
                   ELSE q.pc = "done" /\ q.res = ResCandidateNotFound
              [] req[r].pc = "findVote" ->
                   IF \E x \in votes : x.voter = q.voter /\ x.election = q.electionId
                   THEN q.pc = "done" /\ q.res = ResAlreadyVoted
                   ELSE q.pc = "save" /\ q.res = NoResponse
              [] OTHER -> q.res \notin EarlyRejections
        ]_vars

\* a voter who has voted and asks again after the election has closed is
\* told that the election has ended, the earlier of the two failing checks
C4_Witness ==
    \E r1, r2 \in VoteRequests :
        /\ req[r1].res = ResVoteCast
        /\ req[r2].voter = req[r1].voter /\ req[r2].electionId = req[r1].electionId
        /\ req[r2].res = ResEnded
        /\ FindVote(req[r2].voter, req[r2].electionId) # {}

\* C5: for every election configuration and instant exactly one of the four
\* lifecycle conditions holds; the election checks of an admission let it
\* pass exactly in state Open, and answer Inactive, Upcoming and Closed each
\* with its own response.
C5_LifecycleGatesAdmission ==
    /\ Cardinality(NotOpenResponses) = 3
    /\ [][\A r \in Requests :
            (VoteStep(r) /\ req[r].pc = "idle" /\ StoredElection(r).exists) =>
            LET q == req'[r]
                S == StatesOf(StoredElection(r), clock)
            IN /\ Cardinality(S) = 1
               /\ "Open" \in S => q.pc = "findCandidate" /\ q.res = NoResponse
               /\ "Inactive" \in S => q.pc = "done" /\ q.res = ResNotActive
               /\ "Upcoming" \in S => q.pc = "done" /\ q.res = ResNotStarted
               /\ "Closed" \in S => q.pc = "done" /\ q.res = ResEnded
        ]_vars

\* an admission let through at the last instant of the voting window
C5_Witness ==
    \E r \in VoteRequests :
        /\ req[r].electionId = "e1" /\ req[r].res = NoResponse
        /\ elections["e1"].isActive /\ clock = elections["e1"].endDate

\* C6, as claimed: a resubmission of an admission whose Vote is in the store
\* is answered with the already-voted rejection and writes nothing.
C6_RetryAnsweredAlreadyVoted ==
    \A r \in VoteRequests :
        (req[r].retry /\ Done(r)) =>
            req[r].res = ResAlreadyVoted /\ ~req[r].inserted /\ ~req[r].incremented

\* C6, amended: a resubmission of an admission whose Vote is in the store never
\* inserts a Vote nor increments a voteCount; it is answered with a rejection,
\* which is the already-voted one whenever the election and candidate checks
\* let it through.
C6_RetryWritesNothing ==
    \A r \in VoteRequests :
        req[r].retry =>
            /\ req[r].pc \notin {"save", "inc"}
            /\ ~req[r].inserted /\ ~req[r].incremented
            /\ Done(r) => req[r].res \in Rejections
            /\ (Done(r) /\ req[r].res \notin EarlyRejections) =>
                  req[r].res = ResAlreadyVoted /\ req[r].existingVote = "doc"

\* a resubmission after an admission that failed behind its insert
C6_Witness ==
    \E r1, r2 \in VoteRequests :
        /\ req[r1].inserted /\ req[r1].fault /\ req[r1].res = ResServerError
        /\ req[r2].retry /\ req[r2].voter = req[r1].voter
        /\ req[r2].candidateId = req[r1].candidateId
        /\ req[r2].res = ResAlreadyVoted

\* C7: the step that answers an admission with one of the four rejections
\* changes no collection, and the rejected admission has neither inserted a
\* Vote nor incremented a voteCount before.
C7_RejectionLeavesStore ==
    [][\A r \in Requests :
          (VoteStep(r) /\ req'[r].pc = "done" /\ req'[r].res \in Rejections) =>
              /\ votes' = votes /\ candidates' = candidates /\ elections' = elections
              /\ ~req'[r].inserted /\ ~req'[r].incremented
      ]_vars

\* a voter's second attempt, for another candidate, rejected with that
\* candidate's voteCount still 0
C7_Witness ==
    \E r1, r2 \in VoteRequests :
        /\ req[r1].res = ResVoteCast /\ req[r1].incremented
        /\ req[r2].voter = req[r1].voter /\ req[r2].electionId = req[r1].electionId
        /\ req[r2].candidateId # req[r1].candidateId
        /\ req[r2].res = ResAlreadyVoted
        /\ candidates[req[r2].candidateId].exists
        /\ candidates[req[r2].candidateId].voteCount = 0
        /\ Cardinality(votes) = 1

\* C8: an admission answered with success has inserted its Vote and raised
\* the voteCount of its candidate.
C8_SuccessInsertsAndIncrements ==
    \A r \in VoteRequests :
        (Done(r) /\ req[r].res = ResVoteCast) => req[r].inserted /\ req[r].incremented

\* C9: the totalVotes of a results query is the number of Vote documents of
\* its election in the store at the step that reads it.
C9_TotalVotesCountsVoteLog ==
    [][\A r \in Requests :
          (req[r].kind = "results" /\ req[r].pc = "countVotes" /\ req'[r] # req[r]) =>
              req'[r].totalVotes =
                  Cardinality({x \in votes : x.election = req[r].electionId})
      ]_vars

\* a total of 1 read while the admission that inserted the Vote is still
\* between its insert and its increment
C9_Witness ==
    \E q \in Requests :
        /\ req[q].kind = "results" /\ req[q].pc \in {"findUserVote", "done"}
        /\ req[q].totalVotes = 1
        /\ \E r \in VoteRequests :
              req[r].pc = "inc" /\ req[r].electionId = req[q].electionId

\* C10: when no admission is in progress, the voteCount a results query reads
\* for a candidate is the number of Vote documents of that candidate in the
\* election.
C10_ReportedCountsMatchVoteLog ==
    [][\A r \in Requests :
          ( /\ req[r].kind = "results" /\ req[r].pc = "findCandidates"
            /\ req'[r].pc = "countVotes"
            /\ \A a \in VoteRequests : Done(a) ) =>
              \A i \in DOMAIN req'[r].candidates :
                  req'[r].candidates[i].voteCount =
                      Cardinality({x \in votes : /\ x.election = req[r].electionId
                                                 /\ x.candidate = req'[r].candidates[i].id})
      ]_vars

\* the place of candidate c in the order of creation
CreationIndex(c) == CHOOSE i \in DOMAIN CreationOrder : CreationOrder[i] = c

\* C11: the candidates a results query reads are the candidates of its
\* election by descending voteCount, and candidates of equal voteCount come
\* in the order of their creation.
C11_OrderedByCountThenCreation ==
    [][\A r \in Requests :
          ( /\ req[r].kind = "results" /\ req[r].pc = "findCandidates"
            /\ req'[r].pc = "countVotes" ) =>
              LET cs == req'[r].candidates IN
              /\ {cs[i].id : i \in DOMAIN cs} =
                    {c \in CandidateIds : /\ candidates[c].exists
                                          /\ candidates[c].election = req[r].electionId}
              /\ \A i, j \in DOMAIN cs :
                    i < j => \/ cs[i].voteCount > cs[j].voteCount
                             \/ /\ cs[i].voteCount = cs[j].voteCount
                                /\ CreationIndex(cs[i].id) < CreationIndex(cs[j].id)
      ]_vars

\* C12: in every state the voteCount of a candidate is at most the number of
\* Vote documents of that candidate.
C12_CountNeverAheadOfVoteLog ==
    \A c \in CandidateIds :
        candidates[c].exists => candidates[c].voteCount <= CountVotesOfCandidate(c)

\* the requests that update candidate c
UpdatesOf(c) == {r \in Requests : req[r].kind = "putCandidate" /\ req[r].id = c}

\* the admissions for candidate c answered with success
SuccessesFor(c) ==
    {r \in VoteRequests : req[r].candidateId = c /\ req[r].res = ResVoteCast}

\* C13: once the admissions for a candidate have completed, the voteCount of
\* the candidate has risen by the number of them that succeeded, whatever the
\* interleaving of their steps (the candidate started at 0 and is written by
\* no update request).
C13_NoLostIncrement ==
    \A c \in CandidateIds :
        ( /\ candidates[c].exists /\ UpdatesOf(c) = {}
          /\ \A r \in VoteRequests : req[r].candidateId = c => Done(r) )
        => candidates[c].voteCount = Cardinality(SuccessesFor(c))

\* two voters admitted for one candidate, whose voteCount is 2
C13_Witness ==
    \E r1, r2 \in VoteRequests :
        /\ req[r1].voter # req[r2].voter
        /\ req[r1].candidateId = req[r2].candidateId
        /\ req[r1].res = ResVoteCast /\ req[r2].res = ResVoteCast
        /\ candidates[req[r1].candidateId].voteCount = 2

\* C14: no step lowers the voteCount of a candidate, and only the increment
\* of an admission answered with success changes it.
C14_CountIncrementOnly ==
    [][\A c \in CandidateIds :
          (candidates[c].exists /\ candidates'[c].exists) =>
              /\ candidates'[c].voteCount >= candidates[c].voteCount
              /\ candidates'[c].voteCount # candidates[c].voteCount =>
                    \E r \in Requests :
                        /\ At(r, "vote", "inc") /\ req[r].candidateId = c
                        /\ req'[r].res = ResVoteCast
      ]_vars

\* C15: a Vote document, once in the collection, stays in it unchanged through
\* every step, the steps of candidate and election deletion included.
C15_VotesArePermanent ==
    [][votes \subseteq votes']_vars

\* a Vote that has outlived the deletion of its election
C15_Witness ==
    \E x \in votes, r \in Requests :
        /\ req[r].kind = "deleteElection" /\ req[r].res = ResElectionDeleted
        /\ req[r].id = x.election /\ ~elections[x.election].exists

\* a step that request r takes in handler k
StepOf(r, k) == req[r].kind = k /\ req'[r] # req[r]

\* C16: a candidate deletion that finds a Vote document of the candidate when
\* it counts them is answered with the conflict rejection, and the step leaves
\* the candidate, its voteCount and the Vote collection as they are.
C16_DeleteCandidateWithVotesRejected ==
    [][\A r \in Requests :
          ( /\ StepOf(r, "deleteCandidate") /\ req[r].pc = "countVotes"
            /\ req[r].candidate.state = "doc"
            /\ \E x \in votes : x.candidate = req[r].id ) =>
              /\ req'[r].pc = "done" /\ req'[r].res = ResCandidateHasVotes
              /\ candidates' = candidates /\ votes' = votes
      ]_vars

\* a rejected deletion of a candidate that holds a Vote
C16_Witness ==
    \E r \in Requests :
        /\ req[r].kind = "deleteCandidate" /\ req[r].res = ResCandidateHasVotes
        /\ candidates[req[r].id].exists /\ candidates[req[r].id].voteCount = 1
        /\ \E x \in votes : x.candidate = req[r].id

\* C17: an election deletion that finds a Vote document of the election when
\* it counts them is answered with the conflict rejection and leaves the
\* election, the candidates and the votes as they are; the steps that delete
\* the candidates and the election are taken only by a request whose count
\* was 0, and no other step of the request changes the store.
C17_DeleteElectionWithVotesRejected ==
    [][\A r \in Requests : StepOf(r, "deleteElection") =>
          /\ ( /\ req[r].pc = "countVotes" /\ req[r].election.state = "doc"
               /\ \E x \in votes : x.election = req[r].id ) =>
                 /\ req'[r].pc = "done" /\ req'[r].res = ResElectionHasVotes
          /\ (candidates' # candidates \/ elections' # elections) =>
                 /\ req[r].pc \in {"deleteCandidates", "delete"}
                 /\ req[r].voteCount = 0
          /\ req'[r].res = ResElectionHasVotes =>
                 elections' = elections /\ candidates' = candidates
          /\ votes' = votes
      ]_vars

\* a rejected deletion of an election that holds a Vote
C17_Witness ==
    \E r \in Requests :
        /\ req[r].kind = "deleteElection" /\ req[r].res = ResElectionHasVotes
        /\ elections[req[r].id].exists
        /\ \E x \in votes : x.election = req[r].id
        /\ \E c \in CandidateIds :
              candidates[c].exists /\ candidates[c].election = req[r].id

\* C18: once a Vote document exists for an election, no step changes the
\* startDate or the endDate of the election.
C18_DatesFixedOnceVoted ==
    [][\A e \in ElectionIds :
          ( /\ elections[e].exists /\ elections'[e].exists
            /\ \E x \in votes : x.election = e ) =>
              /\ elections'[e].startDate = elections[e].startDate
              /\ elections'[e].endDate = elections[e].endDate
      ]_vars

\* the answer of a query of voter u's vote in election e: found with its
\* candidate when a Vote document exists, not found when none does
AnswersVote(found, candidate, u, e) ==
    /\ found <=> (FindVote(u, e) # {})
    /\ found => \E x \in FindVote(u, e) : candidate = x.candidate

\* C19: check-vote, and the hasVoted and userVote fields of results, answer
\* true with the chosen candidate exactly if a Vote document of the voter in
\* the election exists; after a true answer every later query of the same
\* voter and election answers true with the same candidate.
C19_HasVotedIffVoteExists ==
    /\ [](\A r1, r2 \in QueryRequests :
          ( /\ r1 < r2 /\ req[r1].kind = "checkVote" /\ req[r2].kind = "checkVote"
            /\ req[r1].user = req[r2].user /\ req[r1].electionId = req[r2].electionId
            /\ req[r1].hasVoted ) =>
              req[r2].hasVoted /\ req[r2].vote = req[r1].vote)
    /\ [][\A r \in QueryRequests :
            /\ (req[r].pc = "idle" /\ req'[r].kind = "checkVote") =>
                  /\ req'[r].res = ResOk
                  /\ AnswersVote(req'[r].hasVoted, req'[r].vote,
                                 req'[r].user, req'[r].electionId)
            /\ (req[r].kind = "results" /\ req[r].pc = "findUserVote"
                  /\ req'[r] # req[r]) =>
                  AnswersVote(req'[r].hasVoted, req'[r].userVote,
                              req[r].user, req[r].electionId)
        ]_vars

\* the results pages rendered so far
Pages == {r \in Requests : req[r].kind = "resultsPage"}

\* C20: a results page presents a winner only for an election that is in
\* state Closed at the time of rendering and has totalVotes > 0.
C20_WinnerOnlyWhenClosed ==
    \A p \in Pages :
        req[p].winner # "none" =>
            /\ StatesOf(req[p].election, req[p].now) = {"Closed"}
            /\ req[p].totalVotes > 0

\* C21: a results page of an election in state Closed, of which two or more
\* candidates share the highest voteCount, presents none of them as winner.
C21_TieNamesNoWinner ==
    \A p \in Pages :
        ( /\ StatesOf(req[p].election, req[p].now) = {"Closed"}
          /\ \E i \in DOMAIN req[p].candidates :
                /\ i # 1
                /\ req[p].candidates[i].voteCount = req[p].candidates[1].voteCount )
        => req[p].winner = "none"

\* C22: no two candidates of one election have the same name; a creation
\* whose (name, election) a candidate already has is answered with the
\* already-exists rejection and leaves the candidates as they are.
C22_CandidateNamesUnique ==
    /\ [](\A c, d \in CandidateIds :
          ( /\ c # d /\ candidates[c].exists /\ candidates[d].exists
            /\ candidates[c].election = candidates[d].election )
          => candidates[c].name # candidates[d].name)
    /\ [][\A r \in Requests :
            ( /\ StepOf(r, "postCandidate") /\ req[r].pc = "save"
              /\ req[r].election.state = "doc"
              /\ \E c \in CandidateIds :
                    /\ candidates[c].exists /\ candidates[c].name = req[r].name
                    /\ candidates[c].election = req[r].id ) =>
                /\ req'[r].res = ResCandidateExists
                /\ candidates' = candidates
        ]_vars

\* a creation refused the name of a candidate of the election, which is
\* still the only candidate
C22_Witness ==
    \E r \in Requests :
        /\ req[r].kind = "postCandidate" /\ req[r].res = ResCandidateExists
        /\ candidates["c1"].exists /\ candidates["c1"].election = req[r].id
        /\ ~candidates["c2"].exists

\* C27: every candidate references an election that exists.
C27_CandidatesHaveElection ==
    \A c \in CandidateIds :
        candidates[c].exists => elections[candidates[c].election].exists

\* the place of a position in the order of the admission handler
Rank(pc) ==
    CASE pc = "idle" -> 0
      [] pc = "findCandidate" -> 1
      [] pc = "findVote" -> 2
      [] pc = "save" -> 3
      [] pc = "inc" -> 4
      [] pc = "done" -> 5

\* the responses of an admission
Outcomes == Rejections \cup {ResVoteCast, ResServerError}

\* C23: every step of an admission moves it forward in the handler, inserts
\* at most one Vote and raises at most one voteCount by 1, and an answered
\* admission takes no further step; an admission in progress can always take
\* its next step, whatever the other requests do; and every admission is in
\* the end answered with one of its outcomes.
C23_AdmissionTerminates ==
    /\ [][\A r \in Requests : VoteStep(r) =>
            /\ req[r].pc # "done"
            /\ Rank(req'[r].pc) > Rank(req[r].pc)
            /\ votes' # votes => (req[r].pc = "save" /\ Cardinality(votes' \ votes) = 1)
            /\ candidates' # candidates => req[r].pc = "inc"
        ]_vars
    /\ [](\A r \in VoteRequests : ~Done(r) => ENABLED PostVote_resume(r))
    /\ \A r \in Requests :
          (req[r].kind = "vote") ~> (Done(r) /\ req[r].res \in Outcomes)

\* two admissions answered, one of them after a failed increment
C23_Witness ==
    \E r1, r2 \in VoteRequests :
        /\ r1 # r2 /\ Done(r1) /\ Done(r2)
        /\ req[r1].fault /\ req[r1].inserted
        /\ req[r2].res = ResAlreadyVoted


\* no request is being handled
Quiescent == \A r \in Requests : req[r].pc = "idle" \/ Done(r)

\* C24: once every admission is answered and nothing else is in progress,
\* and no candidate update was sent, each candidate's voteCount equals the
\* number of Votes stored for it.
C24_TallyReconciled ==
    (Quiescent /\ \A r \in Requests : req[r].kind \in {"none", "vote"})
        => \A c \in CandidateIds :
              candidates[c].exists =>
                  candidates[c].voteCount = CountVotesOfCandidate(c)


\* the evaluations of lifecycle call sites made so far
Evaluations == {r \in Requests : req[r].kind = "status"}

\* the server's admission check on the same election at the same time
ServerVerdict(r) ==
    CheckElection([state |-> "doc", doc |-> req[r].election], req[r].now)

OpenSites == {"isRunning", "isElectionActive"}
ClosedSites == {"hasEnded", "isElectionEnded"}
StatusSites == {"Elections.getElectionStatus", "AdminDashboard.getElectionStatus"}

\* C25: every call site agrees with the server's admission check on the same
\* election and time: a site that tells whether the election is open says so
\* exactly when the server admits, and a site that tells whether it has
\* ended says so exactly when the server answers that the election has ended.
C25_CallSitesAgree ==
    \A r \in Evaluations :
        /\ req[r].site \in OpenSites =>
              (req[r].value <=> ServerVerdict(r) = NoResponse)
        /\ req[r].site \in ClosedSites =>
              (req[r].value <=> ServerVerdict(r) = ResEnded)
        /\ req[r].site \in StatusSites =>
              /\ req[r].value = "active" <=> ServerVerdict(r) = NoResponse
              /\ req[r].value = "ended" <=> ServerVerdict(r) = ResEnded


\* C26: every Vote record references an election and a candidate that exist.
C26_VotesReferenceExisting ==
    \A v \in votes :
        /\ elections[v.election].exists
        /\ candidates[v.candidate].exists


\* C28: the candidate of every Vote record belongs to the election of that
\* Vote record.
C28_VoteCandidateInElection ==
    \A v \in votes :
        candidates[v.candidate].exists =>
            candidates[v.candidate].election = v.election

\* C29: a step that inserts a Vote record is taken while the election of the
\* record, as stored, is Open at the time of the step.
C29_InsertOnlyWhileOpen ==
    [][\A v \in votes' \ votes :
          /\ elections[v.election].exists
          /\ InState("Open", elections[v.election], clock)
      ]_vars

\* C30: the timestamp of every Vote record lies within the voting window of
\* its election.
C30_TimestampInWindow ==
    \A v \in votes :
        elections[v.election].exists =>
            /\ elections[v.election].startDate <= v.timestamp
            /\ v.timestamp <= elections[v.election].endDate


\* the sum of the voteCounts a results query lists
RECURSIVE SumVoteCounts(_)
SumVoteCounts(cs) ==
    IF cs = <<>> THEN 0 ELSE Head(cs).voteCount + SumVoteCounts(Tail(cs))

\* C31: in a results response no listed voteCount exceeds totalVotes, and the
\* listed voteCounts together do not exceed totalVotes.
C31_CountsWithinTotal ==
    \A r \in Requests :
        (req[r].kind = "results" /\ Done(r) /\ req[r].res = ResOk) =>
            /\ \A i \in DOMAIN req[r].candidates :
                  req[r].candidates[i].voteCount <= req[r].totalVotes
            /\ SumVoteCounts(req[r].candidates) <= req[r].totalVotes


\* C32: every stored election has endDate > startDate, and a creation or
\* update that is refused leaves the stored elections as they are.
C32_EndAfterStart ==
    /\ [](\A e \in ElectionIds : elections[e].exists =>
            elections[e].endDate > elections[e].startDate)
    /\ [][\A r \in Requests :
            ( /\ req'[r] # req[r]
              /\ req'[r].kind \in {"postElection", "putElection"}
              /\ req'[r].pc = "done"
              /\ req'[r].res \notin {ResOk, ResCreated} ) =>
                elections' = elections
        ]_vars


\* the action dispatched by a step of the reducer
Dispatched == client'.log[Len(client'.log)]

\* C33: in every state of the reducer isAuthenticated holds exactly if user
\* is not null; AUTH_FAIL and LOGOUT lead to user null, isAuthenticated false
\* and isLoading false; AUTH_START changes isLoading only, setting it.
C33_AuthenticatedIffUser ==
    /\ [](client.state.isAuthenticated <=> client.state.user # "null")
    /\ [][client'.log # client.log =>
            /\ Dispatched.type \in {"AUTH_FAIL", "LOGOUT"} =>
                  client'.state = [user |-> "null", isAuthenticated |-> FALSE,
                                   isLoading |-> FALSE]
            /\ Dispatched.type = "AUTH_START" =>
                  /\ client'.state.user = client.state.user
                  /\ client'.state.isAuthenticated = client.state.isAuthenticated
                  /\ client'.state.isLoading
        ]_vars

\* a user was installed and AUTH_FAIL or LOGOUT then removed it
C33_Witness ==
    \E i \in DOMAIN client.log :
        /\ i > 1
        /\ client.log[i - 1].type = "AUTH_SUCCESS"
        /\ client.log[i].type \in {"AUTH_FAIL", "LOGOUT"}
        /\ i = Len(client.log)
        /\ client.state.user = "null"


\* C34: when checkAuth was called once, beside a login, register or logout,
\* and no call of the provider is in progress and the state is authenticated,
\* the user of the state is the user authService holds.
C34_SettledUserIsStoredUser ==
    ( /\ Cardinality({r \in Requests : req[r].kind = "checkAuth"}) = 1
      /\ Quiescent
      /\ client.state.isAuthenticated ) =>
        client.state.user = client.stored

====
